---- MODULE Spec2Model ----
(***************************************************************************)
(* State-machine model of one call-bridge session of outbound-calls.js:    *)
(* the closure created by the "/outbound-media-stream" WebSocket handler,  *)
(* its asynchronous ElevenLabs setup, the handlers of the Twilio socket    *)
(* (ws) and of the ElevenLabs socket (elevenLabsWs), and the transcript    *)
(* upload.  Node runs every handler to completion on one thread, so each   *)
(* handler (or each continuation between two awaits) is one atomic action. *)
(*                                                                         *)
(* Not modelled: the wall-clock timestamp of a transcript row (new Date()),*)
(* console logging, and the HTTP routes that place the call.               *)
(*                                                                         *)
(* WebSocket.send on a socket that is not OPEN follows ws 8 (the version   *)
(* the (ws, req) handler signature of @fastify/websocket implies): the     *)
(* frame is discarded without an exception.  Every send call is logged     *)
(* with the socket state at the call, so a discarded frame is visible.     *)
(***************************************************************************)
EXTENDS Integers, Sequences, FiniteSets, TLC

\* ---------------------------------------------------------------- bounds
\* frames handled in one session, Twilio frames and ElevenLabs messages
\* together
MaxFrames == 3

\* frames handled by two concurrent sessions together
MaxFramesTwo == 2

\* ------------------------------------------------------------- JS values
NULL == "null"            \* JavaScript null / undefined

\* JavaScript truthiness of a string-or-null value: if (streamSid), x || y
TruthyStr(s) == s # NULL /\ s # ""

\* JavaScript truthiness of a number: if (message.ping_event?.event_id)
TruthyNum(n) == n # 0

\* ----------------------------------------------------------- input sets
ELEVENLABS_AGENT_ID == "agent"
Prompt == "You are a helpful agent"
ErrorPrompt == "Error fetching prompt."
ContentType == "audio/x-mulaw; rate=8000"

\* msg.start of the Twilio "start" frames
StartFrames ==
  { [streamSid |-> "S1", callSid |-> "C1", customParameters |-> NULL],
    [streamSid |-> "S2", callSid |-> "C2", customParameters |-> "to=+1555"] }

\* msg.media.payload of the Twilio "media" frames: base64 text without its
\* padding, so that its length and the length of its re-encoding differ
MediaPayloads == {"AA"}

\* event_id values of the ElevenLabs ping_event (integers on the wire)
EventIds == {0, 7}

\* ElevenLabs "audio" messages: with a chunk, and with no payload at all
AudioMessages ==
  { [type |-> "audio", audio |-> [chunk |-> "BBBB"]],
    [type |-> "audio"] }

PingMessages ==
  { [type |-> "ping", ping_event |-> [event_id |-> i]] : i \in EventIds }

AgentMessages == { [type |-> "agent_response", text |-> "hello"] }

\* the message types the switch of elevenLabsWs.on("message") has a case for
RecognizedTypes ==
  { "audio", "agent_response", "agent_response_correction", "interruption",
    "ping" }

UnhandledMessages == { [type |-> "conversation_initiation_metadata"] }

\* ------------------------------------------------------------ the state
VARIABLES
  streamSid,          \* let streamSid
  callSid,            \* let callSid
  customParameters,   \* let customParameters
  elevenLabsWs,       \* let elevenLabsWs: NULL or the socket object
  conversationData,   \* let conversationData: the transcript rows
  readyState,         \* elevenLabsWs.readyState (NULL while no socket)
  wsState,            \* readyState of the Twilio socket ws
  setupPc,            \* position of the async function setupElevenLabs
  elevenLabsPrompt,   \* const elevenLabsPrompt inside setupElevenLabs
  aiSent,             \* calls of elevenLabsWs.send, in order
  twilioSent,         \* calls of ws.send, in order
  uploads,            \* calls of uploadConversationToStorage, in order
  closeCalls,         \* number of calls of elevenLabsWs.close()
  nTwilio,            \* Twilio frames handled so far
  nAI,                \* ElevenLabs messages handled so far
  audioBeforeStart,   \* ids of the audio messages handled with no streamSid
  setupFailures,      \* the setup failures that have happened
  lastEvent,          \* the event the last handler run was for
  peer                \* the session of a second connection, when there is one

vars == << streamSid, callSid, customParameters, elevenLabsWs,
           conversationData, readyState, wsState, setupPc, elevenLabsPrompt,
           aiSent, twilioSent, uploads, closeCalls, nTwilio, nAI,
           audioBeforeStart, setupFailures, lastEvent, peer >>

closureVars == << streamSid, callSid, customParameters >>
counters == << nTwilio, nAI >>

\* ------------------------------------------------------------- helpers
\* one row of conversationData (the timestamp is not modelled)
Row(speaker, messageType, content, sizeBytes, additionalInfo) ==
  [ speaker |-> speaker, messageType |-> messageType, content |-> content,
    sizeBytes |-> sizeBytes, additionalInfo |-> additionalInfo ]

CsvHeader == << "Speaker", "Message Type", "Content", "Size (bytes)",
                "Additional Info" >>

CsvLine(row) == << row.speaker, row.messageType, row.content, row.sizeBytes,
                   row.additionalInfo >>

\* generateConversationCSV: a header line, then one line per row
generateConversationCSV(data) ==
  << CsvHeader >> \o [ i \in 1..Len(data) |-> CsvLine(data[i]) ]

\* Buffer.from(payload, "base64").toString("base64"): re-encoding pads the
\* text to a multiple of four characters
Base64Reencode(payload) ==
  CASE Len(payload) % 4 = 0 -> payload
    [] Len(payload) % 4 = 2 -> payload \o "=="
    [] Len(payload) % 4 = 3 -> payload \o "="
    [] OTHER -> SubSeq(payload, 1, Len(payload) - 1)

\* elevenLabsWs.send(frame): the call, the socket state at the call, and
\* the id of the Twilio frame it translates (0 when it translates none)
ElevenLabsSend(frame, from) ==
  Append(aiSent, [frame |-> frame, at |-> readyState, from |-> from])

\* the frame put ahead of the frames already sent
TwilioSendFirst(frame, from) ==
  << [frame |-> frame, at |-> wsState, from |-> from] >> \o twilioSent

\* ws.send(frame): the call, the state of ws at the call, and the id of
\* the ElevenLabs message it translates
TwilioSend(frame, from) ==
  Append(twilioSent, [frame |-> frame, at |-> wsState, from |-> from])

\* the upload without its test for a missing parameter
uploadWithoutParameterTest(sid, csvData) ==
  [callSid |-> sid, csvData |-> csvData, status |-> "pending"]

\* uploadConversationToStorage(callSid, csvData): rejects at once when a
\* parameter is missing, else the upload to storage is pending
uploadConversationToStorage(sid, csvData) ==
  [ callSid |-> sid, csvData |-> csvData,
    status |-> IF sid = NULL \/ sid = "" \/ csvData = <<>>
               THEN "rejected" ELSE "pending" ]

Event(on, event, msg) == [on |-> on, event |-> event, msg |-> msg]

\* ----------------------------------------------------------- the sessions
\* Every connection to /outbound-media-stream runs the handler once and so
\* gets a closure of its own.  The variables above are the closure of the
\* session whose handler runs; peer holds the closure of a second session.
NoPeer == [accepted |-> FALSE]

\* the closure of the session whose handler runs, as one value
Cur ==
  [ streamSid |-> streamSid, callSid |-> callSid,
    customParameters |-> customParameters, elevenLabsWs |-> elevenLabsWs,
    conversationData |-> conversationData, readyState |-> readyState,
    wsState |-> wsState, setupPc |-> setupPc,
    elevenLabsPrompt |-> elevenLabsPrompt, aiSent |-> aiSent,
    twilioSent |-> twilioSent, uploads |-> uploads, closeCalls |-> closeCalls,
    nTwilio |-> nTwilio, nAI |-> nAI, audioBeforeStart |-> audioBeforeStart,
    setupFailures |-> setupFailures, lastEvent |-> lastEvent ]

\* the closure right after the handler of a new connection has run
FreshSession ==
  [ streamSid |-> NULL, callSid |-> NULL, customParameters |-> NULL,
    elevenLabsWs |-> NULL, conversationData |-> << >>, readyState |-> NULL,
    wsState |-> "OPEN", setupPc |-> "fetchElevenLabsPrompt",
    elevenLabsPrompt |-> NULL, aiSent |-> << >>, twilioSent |-> << >>,
    uploads |-> << >>, closeCalls |-> 0, nTwilio |-> 0, nAI |-> 0,
    audioBeforeStart |-> {}, setupFailures |-> {},
    lastEvent |-> Event("ws", "connection", NULL) ]

\* frames handled so far, by every session
FramesHandled ==
  nTwilio + nAI + (IF peer = NoPeer THEN 0 ELSE peer.nTwilio + peer.nAI)

\* the frames the model lets the sessions handle
FrameBudget == IF peer = NoPeer THEN MaxFrames ELSE MaxFramesTwo

\* ------------------------------------------------------------------ Init
Init ==
  /\ streamSid = NULL
  /\ callSid = NULL
  /\ customParameters = NULL
  /\ elevenLabsWs = NULL
  /\ conversationData = << >>
  /\ readyState = NULL
  /\ wsState = "OPEN"
  /\ setupPc = "fetchElevenLabsPrompt"
  /\ elevenLabsPrompt = NULL
  /\ aiSent = << >>
  /\ twilioSent = << >>
  /\ uploads = << >>
  /\ closeCalls = 0
  /\ nTwilio = 0
  /\ nAI = 0
  /\ audioBeforeStart = {}
  /\ setupFailures = {}
  /\ lastEvent = Event("ws", "connection", NULL)
  /\ peer = NoPeer

\* ------------------------------------------------------ setupElevenLabs
\* await fetchElevenLabsPrompt(): a failed fetch is caught inside the
\* function, which then returns the text "Error fetching prompt."
FetchPromptReturns(ok) ==
  /\ setupPc = "fetchElevenLabsPrompt"
  /\ setupPc' = "getSignedUrl"
  /\ elevenLabsPrompt' = IF ok THEN Prompt ELSE ErrorPrompt
  /\ setupFailures' = IF ok THEN setupFailures
                      ELSE setupFailures \cup {"prompt"}
  /\ lastEvent' = Event("setup", "fetchElevenLabsPrompt", NULL)
  /\ UNCHANGED peer
  /\ UNCHANGED << closureVars, elevenLabsWs, conversationData, readyState,
                  wsState, aiSent, twilioSent, uploads, closeCalls, counters,
                  audioBeforeStart >>

\* await getSignedUrl() returns; new WebSocket(signedUrl) either makes a
\* connecting socket or throws on an unusable url (caught by the catch of
\* setupElevenLabs, which only logs)
GetSignedUrlReturns(usable) ==
  /\ setupPc = "getSignedUrl"
  /\ IF usable
     THEN /\ elevenLabsWs' = "socket"
          /\ readyState' = "CONNECTING"
          /\ setupPc' = "done"
          /\ setupFailures' = setupFailures
     ELSE /\ setupPc' = "caught"
          /\ setupFailures' = setupFailures \cup {"signedUrl"}
          /\ UNCHANGED << elevenLabsWs, readyState >>
  /\ lastEvent' = Event("setup", "getSignedUrl", NULL)
  /\ UNCHANGED peer
  /\ UNCHANGED << closureVars, conversationData, wsState, elevenLabsPrompt,
                  aiSent, twilioSent, uploads, closeCalls, counters,
                  audioBeforeStart >>

\* await getSignedUrl() throws: the catch of setupElevenLabs only logs
GetSignedUrlThrows ==
  /\ setupPc = "getSignedUrl"
  /\ setupPc' = "caught"
  /\ setupFailures' = setupFailures \cup {"signedUrl"}
  /\ lastEvent' = Event("setup", "getSignedUrl", NULL)
  /\ UNCHANGED peer
  /\ UNCHANGED << closureVars, elevenLabsWs, conversationData, readyState,
                  wsState, elevenLabsPrompt, aiSent, twilioSent, uploads,
                  closeCalls, counters, audioBeforeStart >>

\* ------------------------------------------------- elevenLabsWs handlers
\* the test weakened to "a socket exists"
ElevenLabsIsOpenAnyState == elevenLabsWs # NULL

\* elevenLabsWs?.readyState === WebSocket.OPEN
ElevenLabsIsOpen == elevenLabsWs # NULL /\ readyState = "OPEN"

\* elevenLabsWs.close() as the code calls it, always behind the OPEN test
CloseElevenLabsIfOpen ==
  IF ElevenLabsIsOpen
  THEN readyState' = "CLOSING" /\ closeCalls' = closeCalls + 1
  ELSE UNCHANGED << readyState, closeCalls >>

\* the open handler made to record the Initialization row but send nothing
ElevenLabsOpenNoInit ==
  /\ elevenLabsWs # NULL
  /\ readyState = "CONNECTING"
  /\ readyState' = "OPEN"
  /\ conversationData' = Append(conversationData,
       Row("System", "Initialization", "Conversation started with ElevenLabs",
           Len(elevenLabsPrompt), [agentId |-> ELEVENLABS_AGENT_ID]))
  /\ lastEvent' = Event("elevenLabsWs", "open", NULL)
  /\ UNCHANGED peer
  /\ UNCHANGED << closureVars, elevenLabsWs, wsState, setupPc,
                  elevenLabsPrompt, aiSent, twilioSent, uploads, closeCalls,
                  counters, audioBeforeStart, setupFailures >>

\* elevenLabsWs.on("open"): append the Initialization row, send the prompt
ElevenLabsOpen ==
  /\ elevenLabsWs # NULL
  /\ readyState = "CONNECTING"
  /\ readyState' = "OPEN"
  /\ conversationData' = Append(conversationData,
       Row("System", "Initialization", "Conversation started with ElevenLabs",
           Len(elevenLabsPrompt), [agentId |-> ELEVENLABS_AGENT_ID]))
  \* the send runs inside the open handler, where readyState is OPEN
  /\ aiSent' = Append(aiSent,
       [ frame |-> [ type |-> "conversation_initiation_client_data",
                     conversation_config_override |->
                       [agent |-> [prompt |-> [prompt |-> elevenLabsPrompt]]] ],
         at |-> "OPEN", from |-> 0 ])
  /\ lastEvent' = Event("elevenLabsWs", "open", NULL)
  /\ UNCHANGED peer
  /\ UNCHANGED << closureVars, elevenLabsWs, wsState, setupPc,
                  elevenLabsPrompt, twilioSent, uploads, closeCalls, counters,
                  audioBeforeStart, setupFailures >>

\* a message event is delivered while the socket is OPEN or CLOSING
ElevenLabsReceives ==
  /\ elevenLabsWs # NULL
  /\ readyState \in {"OPEN", "CLOSING"}
  /\ FramesHandled < FrameBudget

\* message.audio?.chunk || message.audio_base64
AudioChunk(m) ==
  IF "audio" \in DOMAIN m /\ TruthyStr(m.audio.chunk) THEN m.audio.chunk
  ELSE IF "audio_base64" \in DOMAIN m THEN m.audio_base64
  ELSE NULL

\* case "audio": recorded when it carries a chunk, forwarded to Twilio only
\* when streamSid is set as well
ElevenLabsAudio(m) ==
  /\ ElevenLabsReceives
  /\ nAI' = nAI + 1
  /\ conversationData' =
       IF TruthyStr(AudioChunk(m))
       THEN Append(conversationData,
              Row("Bot", "Audio Response", "Audio chunk",
                  Len(AudioChunk(m)), ""))
       ELSE conversationData
  /\ twilioSent' =
       IF TruthyStr(streamSid) /\ TruthyStr(AudioChunk(m))
       THEN TwilioSend([ event |-> "media", streamSid |-> streamSid,
                         media |-> [ payload |-> AudioChunk(m),
                                     content_type |-> ContentType ] ],
                       nAI + 1)
       ELSE twilioSent
  /\ audioBeforeStart' =
       IF TruthyStr(AudioChunk(m)) /\ ~TruthyStr(streamSid)
       THEN audioBeforeStart \cup {nAI + 1}
       ELSE audioBeforeStart
  /\ lastEvent' = Event("elevenLabsWs", "message", m)
  /\ UNCHANGED peer
  /\ UNCHANGED << closureVars, elevenLabsWs, readyState, wsState, setupPc,
                  elevenLabsPrompt, aiSent, uploads, closeCalls, nTwilio,
                  setupFailures >>

\* case "agent_response" / "agent_response_correction": recorded only
ElevenLabsAgentResponse(m) ==
  /\ ElevenLabsReceives
  /\ nAI' = nAI + 1
  /\ conversationData' = Append(conversationData,
       Row("System", m.type, IF TruthyStr(m.text) THEN m.text ELSE m, 0, ""))
  /\ lastEvent' = Event("elevenLabsWs", "message", m)
  /\ UNCHANGED peer
  /\ UNCHANGED << closureVars, elevenLabsWs, readyState, wsState, setupPc,
                  elevenLabsPrompt, aiSent, twilioSent, uploads, closeCalls,
                  nTwilio, audioBeforeStart, setupFailures >>

\* the clear frame sent without the test of streamSid
ElevenLabsInterruptionUnguarded ==
  /\ ElevenLabsReceives
  /\ nAI' = nAI + 1
  /\ twilioSent' =
       TwilioSend([event |-> "clear", streamSid |-> streamSid], nAI + 1)
  /\ lastEvent' = Event("elevenLabsWs", "message", [type |-> "interruption"])
  /\ UNCHANGED peer
  /\ UNCHANGED << closureVars, elevenLabsWs, conversationData, readyState,
                  wsState, setupPc, elevenLabsPrompt, aiSent, uploads,
                  closeCalls, nTwilio, audioBeforeStart, setupFailures >>

\* case "interruption": a clear frame to Twilio when streamSid is set
ElevenLabsInterruption ==
  /\ ElevenLabsReceives
  /\ nAI' = nAI + 1
  /\ twilioSent' =
       IF TruthyStr(streamSid)
       THEN TwilioSend([event |-> "clear", streamSid |-> streamSid], nAI + 1)
       ELSE twilioSent
  /\ lastEvent' = Event("elevenLabsWs", "message", [type |-> "interruption"])
  /\ UNCHANGED peer
  /\ UNCHANGED << closureVars, elevenLabsWs, conversationData, readyState,
                  wsState, setupPc, elevenLabsPrompt, aiSent, uploads,
                  closeCalls, nTwilio, audioBeforeStart, setupFailures >>

\* message.ping_event?.event_id, as the condition of the if
HasEventId(m) ==
  "ping_event" \in DOMAIN m /\ TruthyNum(m.ping_event.event_id)

\* case "ping": a pong with the same event_id when the event_id is truthy
ElevenLabsPing(m) ==
  /\ ElevenLabsReceives
  /\ nAI' = nAI + 1
  /\ aiSent' =
       IF HasEventId(m)
       THEN ElevenLabsSend([ type |-> "pong",
                             event_id |-> m.ping_event.event_id ], 0)
       ELSE aiSent
  /\ lastEvent' = Event("elevenLabsWs", "message", m)
  /\ UNCHANGED peer
  /\ UNCHANGED << closureVars, elevenLabsWs, conversationData, readyState,
                  wsState, setupPc, elevenLabsPrompt, twilioSent, uploads,
                  closeCalls, nTwilio, audioBeforeStart, setupFailures >>

\* the default case made to log only
ElevenLabsUnhandledLogsOnly(m) ==
  /\ ElevenLabsReceives
  /\ nAI' = nAI + 1
  /\ lastEvent' = Event("elevenLabsWs", "message", m)
  /\ UNCHANGED peer
  /\ UNCHANGED << closureVars, elevenLabsWs, conversationData, readyState,
                  wsState, setupPc, elevenLabsPrompt, aiSent, twilioSent,
                  uploads, closeCalls, nTwilio, audioBeforeStart,
                  setupFailures >>

\* default: an Unhandled row
ElevenLabsUnhandled(m) ==
  /\ ElevenLabsReceives
  /\ nAI' = nAI + 1
  /\ conversationData' = Append(conversationData,
       Row("System", "Unhandled", m, 0, m.type))
  /\ lastEvent' = Event("elevenLabsWs", "message", m)
  /\ UNCHANGED peer
  /\ UNCHANGED << closureVars, elevenLabsWs, readyState, wsState, setupPc,
                  elevenLabsPrompt, aiSent, twilioSent, uploads, closeCalls,
                  nTwilio, audioBeforeStart, setupFailures >>

\* catch: JSON.parse (or message.type of a JSON null) throws; an Error row
ElevenLabsMalformed ==
  /\ ElevenLabsReceives
  /\ nAI' = nAI + 1
  /\ conversationData' = Append(conversationData,
       Row("System", "Error", "Failed to process message", 0, "SyntaxError"))
  /\ lastEvent' = Event("elevenLabsWs", "message", [unparseable |-> TRUE])
  /\ UNCHANGED peer
  /\ UNCHANGED << closureVars, elevenLabsWs, readyState, wsState, setupPc,
                  elevenLabsPrompt, aiSent, twilioSent, uploads, closeCalls,
                  nTwilio, audioBeforeStart, setupFailures >>

\* elevenLabsWs.on("error") then on("close"): the connect fails or the open
\* socket fails; both handlers only log
ElevenLabsError ==
  /\ elevenLabsWs # NULL
  /\ readyState \in {"CONNECTING", "OPEN", "CLOSING"}
  /\ readyState' = "CLOSED"
  /\ setupFailures' = IF readyState = "CONNECTING"
                      THEN setupFailures \cup {"connect"}
                      ELSE setupFailures
  /\ lastEvent' = Event("elevenLabsWs", "error", NULL)
  /\ UNCHANGED peer
  /\ UNCHANGED << closureVars, elevenLabsWs, conversationData, wsState,
                  setupPc, elevenLabsPrompt, aiSent, twilioSent, uploads,
                  closeCalls, counters, audioBeforeStart >>

\* the close handler made to end the call: it closes the Twilio socket too
ElevenLabsCloseEndsCall ==
  /\ elevenLabsWs # NULL
  /\ readyState \in {"OPEN", "CLOSING"}
  /\ readyState' = "CLOSED"
  /\ wsState' = "CLOSED"
  /\ lastEvent' = Event("elevenLabsWs", "close", NULL)
  /\ UNCHANGED peer
  /\ UNCHANGED << closureVars, elevenLabsWs, conversationData, setupPc,
                  elevenLabsPrompt, aiSent, twilioSent, uploads, closeCalls,
                  counters, audioBeforeStart, setupFailures >>

\* elevenLabsWs.on("close"): the peer closes, or the close the code asked
\* for completes; the handler only logs
ElevenLabsClose ==
  /\ elevenLabsWs # NULL
  /\ readyState \in {"OPEN", "CLOSING"}
  /\ readyState' = "CLOSED"
  /\ lastEvent' = Event("elevenLabsWs", "close", NULL)
  /\ UNCHANGED peer
  /\ UNCHANGED << closureVars, elevenLabsWs, conversationData, wsState,
                  setupPc, elevenLabsPrompt, aiSent, twilioSent, uploads,
                  closeCalls, counters, audioBeforeStart, setupFailures >>

\* ----------------------------------------------------------- ws handlers
\* a message event of the Twilio socket is delivered while ws is open
TwilioReceives ==
  /\ wsState = "OPEN"
  /\ FramesHandled < FrameBudget

\* the start handler made to keep the streamSid of the first "start" frame
TwilioStartKeepsFirst(start) ==
  /\ TwilioReceives
  /\ nTwilio' = nTwilio + 1
  /\ streamSid' = IF streamSid = NULL THEN start.streamSid ELSE streamSid
  /\ callSid' = start.callSid
  /\ customParameters' = start.customParameters
  /\ conversationData' = Append(conversationData,
       Row("System", "Call Start", "Twilio stream connected", 0,
           [ streamSid |-> start.streamSid, callSid |-> start.callSid,
             customParameters |-> start.customParameters ]))
  /\ lastEvent' = Event("ws", "message", [event |-> "start", start |-> start])
  /\ UNCHANGED peer
  /\ UNCHANGED << elevenLabsWs, readyState, wsState, setupPc,
                  elevenLabsPrompt, aiSent, twilioSent, uploads, closeCalls,
                  nAI, audioBeforeStart, setupFailures >>

\* the start handler with streamSid, callSid and customParameters declared
\* outside the connection handler, so that every session shares them
TwilioStartShared(start) ==
  /\ TwilioReceives
  /\ nTwilio' = nTwilio + 1
  /\ streamSid' = start.streamSid
  /\ callSid' = start.callSid
  /\ customParameters' = start.customParameters
  /\ conversationData' = Append(conversationData,
       Row("System", "Call Start", "Twilio stream connected", 0,
           [ streamSid |-> start.streamSid, callSid |-> start.callSid,
             customParameters |-> start.customParameters ]))
  /\ lastEvent' = Event("ws", "message", [event |-> "start", start |-> start])
  /\ peer' = IF peer = NoPeer THEN peer
             ELSE [ peer EXCEPT !.streamSid = start.streamSid,
                                !.callSid = start.callSid,
                                !.customParameters = start.customParameters ]
  /\ UNCHANGED << elevenLabsWs, readyState, wsState, setupPc,
                  elevenLabsPrompt, aiSent, twilioSent, uploads, closeCalls,
                  nAI, audioBeforeStart, setupFailures >>

\* case "start": set the identifiers, append the Call Start row
TwilioStart(start) ==
  /\ TwilioReceives
  /\ nTwilio' = nTwilio + 1
  /\ streamSid' = start.streamSid
  /\ callSid' = start.callSid
  /\ customParameters' = start.customParameters
  /\ conversationData' = Append(conversationData,
       Row("System", "Call Start", "Twilio stream connected", 0,
           [ streamSid |-> start.streamSid, callSid |-> start.callSid,
             customParameters |-> start.customParameters ]))
  /\ lastEvent' = Event("ws", "message", [event |-> "start", start |-> start])
  /\ UNCHANGED peer
  /\ UNCHANGED << elevenLabsWs, readyState, wsState, setupPc,
                  elevenLabsPrompt, aiSent, twilioSent, uploads, closeCalls,
                  nAI, audioBeforeStart, setupFailures >>

\* case "media": only when the ElevenLabs socket is OPEN, send the chunk
\* and append the Audio Input row
TwilioMedia(payload) ==
  /\ TwilioReceives
  /\ nTwilio' = nTwilio + 1
  /\ IF ElevenLabsIsOpen
     THEN /\ aiSent' = ElevenLabsSend(
                 [user_audio_chunk |-> Base64Reencode(payload)], nTwilio + 1)
          /\ conversationData' = Append(conversationData,
               Row("User", "Audio Input", "User audio chunk", Len(payload),
                   ""))
     ELSE UNCHANGED << aiSent, conversationData >>
  /\ lastEvent' = Event("ws", "message",
                        [event |-> "media", media |-> [payload |-> payload]])
  /\ UNCHANGED peer
  /\ UNCHANGED << closureVars, elevenLabsWs, readyState, wsState, setupPc,
                  elevenLabsPrompt, twilioSent, uploads, closeCalls, nAI,
                  audioBeforeStart, setupFailures >>

\* the stop handler made to empty the transcript once it is uploaded
TwilioStopClears ==
  /\ TwilioReceives
  /\ nTwilio' = nTwilio + 1
  /\ conversationData' = << >>
  /\ uploads' =
       Append(uploads,
         uploadConversationToStorage(callSid,
           generateConversationCSV(Append(conversationData,
             Row("System", "Call End", "Twilio stream disconnected", 0,
                 "")))))
  /\ CloseElevenLabsIfOpen
  /\ lastEvent' = Event("ws", "message", [event |-> "stop"])
  /\ UNCHANGED peer
  /\ UNCHANGED << closureVars, elevenLabsWs, wsState, setupPc,
                  elevenLabsPrompt, aiSent, twilioSent, nAI, audioBeforeStart,
                  setupFailures >>

\* case "stop": append the Call End row, serialize and upload the
\* transcript, close the ElevenLabs socket when it is OPEN
TwilioStop ==
  /\ TwilioReceives
  /\ nTwilio' = nTwilio + 1
  /\ conversationData' = Append(conversationData,
       Row("System", "Call End", "Twilio stream disconnected", 0, ""))
  /\ uploads' =
       IF Len(conversationData') > 0
       THEN Append(uploads,
              uploadConversationToStorage(callSid,
                generateConversationCSV(conversationData')))
       ELSE uploads
  /\ CloseElevenLabsIfOpen
  /\ lastEvent' = Event("ws", "message", [event |-> "stop"])
  /\ UNCHANGED peer
  /\ UNCHANGED << closureVars, elevenLabsWs, wsState, setupPc,
                  elevenLabsPrompt, aiSent, twilioSent, nAI, audioBeforeStart,
                  setupFailures >>

\* default: any other event ("connected", "mark", ...) is only logged
TwilioUnhandled ==
  /\ TwilioReceives
  /\ nTwilio' = nTwilio + 1
  /\ lastEvent' = Event("ws", "message", [event |-> "connected"])
  /\ UNCHANGED peer
  /\ UNCHANGED << closureVars, elevenLabsWs, conversationData, readyState,
                  wsState, setupPc, elevenLabsPrompt, aiSent, twilioSent,
                  uploads, closeCalls, nAI, audioBeforeStart, setupFailures >>

\* catch: JSON.parse throws, or "start" has no start object (the exception
\* precedes every assignment); the catch only logs
TwilioMalformed ==
  /\ TwilioReceives
  /\ nTwilio' = nTwilio + 1
  /\ lastEvent' = Event("ws", "message", [unparseable |-> TRUE])
  /\ UNCHANGED peer
  /\ UNCHANGED << closureVars, elevenLabsWs, conversationData, readyState,
                  wsState, setupPc, elevenLabsPrompt, aiSent, twilioSent,
                  uploads, closeCalls, nAI, audioBeforeStart, setupFailures >>

\* ws.on("close"): close the ElevenLabs socket when it is OPEN
TwilioClose ==
  /\ wsState = "OPEN"
  /\ wsState' = "CLOSED"
  /\ CloseElevenLabsIfOpen
  /\ lastEvent' = Event("ws", "close", NULL)
  /\ UNCHANGED peer
  /\ UNCHANGED << closureVars, elevenLabsWs, conversationData, setupPc,
                  elevenLabsPrompt, aiSent, twilioSent, uploads, counters,
                  audioBeforeStart, setupFailures >>

\* ------------------------------------------------------------ the upload
\* uploadBytes / getDownloadURL of a pending upload resolve or reject; the
\* then / catch of the stop handler only log
UploadSettles(i, ok) ==
  /\ i \in 1..Len(uploads)
  /\ uploads[i].status = "pending"
  /\ uploads' = [uploads EXCEPT ![i].status = IF ok THEN "stored" ELSE "failed"]
  /\ lastEvent' = Event("upload", IF ok THEN "then" ELSE "catch", NULL)
  /\ UNCHANGED peer
  /\ UNCHANGED << closureVars, elevenLabsWs, conversationData, readyState,
                  wsState, setupPc, elevenLabsPrompt, aiSent, twilioSent,
                  closeCalls, counters, audioBeforeStart, setupFailures >>

\* ------------------------------------------------------------------ Next
Next ==
  \/ \E ok \in BOOLEAN : FetchPromptReturns(ok)
  \/ \E usable \in BOOLEAN : GetSignedUrlReturns(usable)
  \/ GetSignedUrlThrows
  \/ ElevenLabsOpen
  \/ \E m \in AudioMessages : ElevenLabsAudio(m)
  \/ \E m \in AgentMessages : ElevenLabsAgentResponse(m)
  \/ ElevenLabsInterruption
  \/ \E m \in PingMessages : ElevenLabsPing(m)
  \/ \E m \in UnhandledMessages : ElevenLabsUnhandled(m)
  \/ ElevenLabsMalformed
  \/ ElevenLabsError
  \/ ElevenLabsClose
  \/ \E start \in StartFrames : TwilioStart(start)
  \/ \E payload \in MediaPayloads : TwilioMedia(payload)
  \/ TwilioStop
  \/ TwilioUnhandled
  \/ TwilioMalformed
  \/ TwilioClose
  \/ \E i \in 1..Len(uploads), ok \in BOOLEAN : UploadSettles(i, ok)

Spec == Init /\ [][Next]_vars

\* ------------------------------------------------- two concurrent sessions
\* two connections have been accepted
InitTwo ==
  /\ streamSid = FreshSession.streamSid
  /\ callSid = FreshSession.callSid
  /\ customParameters = FreshSession.customParameters
  /\ elevenLabsWs = FreshSession.elevenLabsWs
  /\ conversationData = FreshSession.conversationData
  /\ readyState = FreshSession.readyState
  /\ wsState = FreshSession.wsState
  /\ setupPc = FreshSession.setupPc
  /\ elevenLabsPrompt = FreshSession.elevenLabsPrompt
  /\ aiSent = FreshSession.aiSent
  /\ twilioSent = FreshSession.twilioSent
  /\ uploads = FreshSession.uploads
  /\ closeCalls = FreshSession.closeCalls
  /\ nTwilio = FreshSession.nTwilio
  /\ nAI = FreshSession.nAI
  /\ audioBeforeStart = FreshSession.audioBeforeStart
  /\ setupFailures = FreshSession.setupFailures
  /\ lastEvent = FreshSession.lastEvent
  /\ peer = FreshSession

\* the next event is for the other session: its closure becomes the one the
\* handlers run in, and the closure of this session waits as it is
OtherSessionRuns ==
  /\ peer # NoPeer
  /\ peer' = Cur
  /\ streamSid' = peer.streamSid
  /\ callSid' = peer.callSid
  /\ customParameters' = peer.customParameters
  /\ elevenLabsWs' = peer.elevenLabsWs
  /\ conversationData' = peer.conversationData
  /\ readyState' = peer.readyState
  /\ wsState' = peer.wsState
  /\ setupPc' = peer.setupPc
  /\ elevenLabsPrompt' = peer.elevenLabsPrompt
  /\ aiSent' = peer.aiSent
  /\ twilioSent' = peer.twilioSent
  /\ uploads' = peer.uploads
  /\ closeCalls' = peer.closeCalls
  /\ nTwilio' = peer.nTwilio
  /\ nAI' = peer.nAI
  /\ audioBeforeStart' = peer.audioBeforeStart
  /\ setupFailures' = peer.setupFailures
  /\ lastEvent' = peer.lastEvent

NextTwo == Next \/ OtherSessionRuns

SpecTwo == InitTwo /\ [][NextTwo]_vars

TypeOK ==
  /\ wsState \in {"OPEN", "CLOSED"}
  /\ readyState \in {NULL, "CONNECTING", "OPEN", "CLOSING", "CLOSED"}
  /\ (elevenLabsWs = NULL) <=> (readyState = NULL)
  /\ nTwilio \in 0..MaxFrames
  /\ nAI \in 0..MaxFrames
  /\ FramesHandled <= FrameBudget

\* ====================================================== the properties
\* some row of the transcript has this Message Type
HasRow(messageType) ==
  \E i \in 1..Len(conversationData) :
    conversationData[i].messageType = messageType

\* the step handles an ElevenLabs message of this type
HandlesAI(type) ==
  /\ nAI' = nAI + 1
  /\ "type" \in DOMAIN lastEvent'.msg
  /\ lastEvent'.msg.type = type

\* the last handler run was for an ElevenLabs message of this type
HandledAI(type) ==
  /\ lastEvent.on = "elevenLabsWs"
  /\ lastEvent.event = "message"
  /\ "type" \in DOMAIN lastEvent.msg
  /\ lastEvent.msg.type = type

\* the last handler run was for a Twilio frame with this event
HandledTwilio(event) ==
  /\ lastEvent.on = "ws"
  /\ lastEvent.event = "message"
  /\ "event" \in DOMAIN lastEvent.msg
  /\ lastEvent.msg.event = event

\* the calls of elevenLabsWs.send that carry a user_audio_chunk
IsChunk(call) == "user_audio_chunk" \in DOMAIN call.frame

\* C1: a Twilio media frame is forwarded to the ElevenLabs socket only
\* while that socket is OPEN: every user_audio_chunk was sent at readyState
\* OPEN, none before the socket opened and none after it closed.
C1_ForwardOnlyWhileOpen ==
  \A i \in 1..Len(aiSent) : IsChunk(aiSent[i]) => aiSent[i].at = "OPEN"

\* C1 witness: a media frame has just been forwarded, the second Twilio
\* frame of the session
C1_Witness ==
  /\ HandledTwilio("media")
  /\ nTwilio = 2
  /\ Len(aiSent) > 0
  /\ IsChunk(aiSent[Len(aiSent)])
  /\ aiSent[Len(aiSent)].from = 2

\* the calls of ws.send that deliver the ElevenLabs message with this id as
\* a media frame
Deliveries(id) ==
  { i \in 1..Len(twilioSent) :
      twilioSent[i].from = id /\ twilioSent[i].frame.event = "media" }

\* C2: every audio message handled while streamSid was unset is held back
\* and delivered to the Twilio socket once the "start" frame has been
\* handled, exactly once: not before streamSid is set, and never twice.
C2_HeldAudioDeliveredOnce ==
  \A id \in audioBeforeStart :
    Cardinality(Deliveries(id)) = IF TruthyStr(streamSid) THEN 1 ELSE 0

\* the lines of a serialized transcript with this Message Type
CsvLines(csvData, messageType) ==
  { i \in 1..Len(csvData) : csvData[i][2] = messageType }

\* C3: every transcript that is finalized (serialized and handed to the
\* upload) contains exactly one Call Start and exactly one Call End line.
C3_OneStartOneEnd ==
  \A u \in 1..Len(uploads) :
    /\ Cardinality(CsvLines(uploads[u].csvData, "Call Start")) = 1
    /\ Cardinality(CsvLines(uploads[u].csvData, "Call End")) = 1

\* C4: teardown is idempotent: in a session in which a "stop" frame has
\* been handled, whatever other teardown triggers occur, the transcript has
\* been serialized and uploaded exactly once and close() has been called on
\* the ElevenLabs socket at most once.
C4_TeardownOnce ==
  HasRow("Call End") => (Len(uploads) = 1 /\ closeCalls <= 1)

\* C5: once the Twilio socket has closed, with or without a "stop" frame
\* before, the transcript holds a Call End row and has been serialized and
\* handed to the upload.  (No handler can do either after the close: only
\* the "stop" case does, and ws delivers no frame once closed.)
C5_CloseFinalizes ==
  wsState = "CLOSED" => (HasRow("Call End") /\ Len(uploads) > 0)

\* C6: closing the Twilio socket cancels the ElevenLabs setup in every
\* phase: once the Twilio socket has closed, the ElevenLabs socket is not
\* open, whether the close came while a fetch was pending, while the socket
\* was connecting or while it was open.
C6_CloseCancelsSetup ==
  wsState = "CLOSED" => ~ElevenLabsIsOpen

\* C7: once a "stop" frame has been handled, no handler sends a further
\* frame to the Twilio socket.
C7_NoTwilioFrameAfterStop ==
  [][HasRow("Call End") => twilioSent' = twilioSent]_vars

\* C8: every ping carrying an event_id x produces exactly one pong with
\* event_id x on the ElevenLabs socket and no frame on the Twilio socket.
C8_PingPong ==
  [][ (HandlesAI("ping") /\ "ping_event" \in DOMAIN lastEvent'.msg) =>
        /\ Len(aiSent') = Len(aiSent) + 1
        /\ SubSeq(aiSent', 1, Len(aiSent)) = aiSent
        /\ aiSent'[Len(aiSent')].frame =
             [ type |-> "pong",
               event_id |-> lastEvent'.msg.ping_event.event_id ]
        /\ twilioSent' = twilioSent ]_vars

\* C9: an interruption produces exactly one clear frame with the known
\* streamSid on the Twilio socket when streamSid is set, and no Twilio frame
\* when it is not; either way the handler completes with no Error row and
\* leaves the session state as it was.
C9_InterruptionClear ==
  [][ HandlesAI("interruption") =>
        /\ IF TruthyStr(streamSid)
           THEN /\ Len(twilioSent') = Len(twilioSent) + 1
                /\ SubSeq(twilioSent', 1, Len(twilioSent)) = twilioSent
                /\ twilioSent'[Len(twilioSent')].frame =
                     [event |-> "clear", streamSid |-> streamSid]
           ELSE twilioSent' = twilioSent
        /\ conversationData' = conversationData
        /\ UNCHANGED << streamSid, readyState, wsState, aiSent >> ]_vars

\* C9 witness: an interruption has just been handled with streamSid set,
\* and the last frame sent to Twilio is the clear frame it produced
C9_Witness ==
  /\ HandledAI("interruption")
  /\ TruthyStr(streamSid)
  /\ Len(twilioSent) > 0
  /\ twilioSent[Len(twilioSent)].from = nAI
  /\ twilioSent[Len(twilioSent)].frame =
       [event |-> "clear", streamSid |-> streamSid]

\* C10: after any failure of the ElevenLabs setup (prompt fetch, signed-url
\* fetch, connect) the transcript holds an Error row, no ElevenLabs socket
\* is open and no frame has been sent to ElevenLabs.
C10_SetupFailureRecorded ==
  setupFailures # {} =>
    /\ HasRow("Error")
    /\ ~ElevenLabsIsOpen
    /\ aiSent = << >>

\* the last handler run was for a Twilio frame that cannot be parsed
HandledTwilioUnparseable ==
  /\ lastEvent.on = "ws"
  /\ lastEvent.event = "message"
  /\ "unparseable" \in DOMAIN lastEvent.msg

\* the last handler run was for an ElevenLabs frame that cannot be parsed
HandledAIUnparseable ==
  /\ lastEvent.on = "elevenLabsWs"
  /\ lastEvent.event = "message"
  /\ "unparseable" \in DOMAIN lastEvent.msg

\* the last row of the transcript has this Message Type
LastRowIs(messageType) ==
  /\ Len(conversationData) > 0
  /\ conversationData[Len(conversationData)].messageType = messageType

\* C11: a frame that cannot be parsed, on the Twilio socket or on the
\* ElevenLabs socket, appends an Error row to the transcript.
C11_UnparseableRecorded ==
  (HandledTwilioUnparseable \/ HandledAIUnparseable) => LastRowIs("Error")

\* the step handles a Twilio frame with this event
HandlesTwilio(event) ==
  /\ nTwilio' = nTwilio + 1
  /\ "event" \in DOMAIN lastEvent'.msg
  /\ lastEvent'.msg.event = event

\* the step is the close or the failure of the ElevenLabs socket
ElevenLabsSocketEnds == readyState # "CLOSED" /\ readyState' = "CLOSED"

\* C12: the close or error of the ElevenLabs socket while the Twilio socket
\* is open leaves the Twilio socket open and finalizes nothing; afterwards
\* the Twilio frames are still handled: "start" sets the identifiers and
\* appends Call Start, "media" is not forwarded, "stop" appends Call End
\* and uploads.
C12_AIFailureKeepsCall ==
  [][ /\ (ElevenLabsSocketEnds /\ wsState = "OPEN") =>
           /\ wsState' = "OPEN"
           /\ uploads' = uploads
           /\ conversationData' = conversationData
           /\ twilioSent' = twilioSent
           /\ UNCHANGED closureVars
      /\ (readyState = "CLOSED" /\ HandlesTwilio("start")) =>
           /\ streamSid' = lastEvent'.msg.start.streamSid
           /\ callSid' = lastEvent'.msg.start.callSid
           /\ LastRowIs("Call Start")'
           /\ Len(conversationData') = Len(conversationData) + 1
      /\ (readyState = "CLOSED" /\ HandlesTwilio("media")) =>
           /\ aiSent' = aiSent
           /\ wsState' = "OPEN"
      /\ (readyState = "CLOSED" /\ HandlesTwilio("stop")) =>
           /\ LastRowIs("Call End")'
           /\ Len(uploads') = Len(uploads) + 1 ]_vars

\* C12 witness: the ElevenLabs socket has closed, the Twilio socket is open
\* and a "start" frame has just been handled
C12_Witness ==
  /\ readyState = "CLOSED"
  /\ wsState = "OPEN"
  /\ HandledTwilio("start")
  /\ streamSid = lastEvent.msg.start.streamSid
  /\ LastRowIs("Call Start")
  /\ uploads = << >>

\* C13: every Twilio media frame handled appends an Audio Input row with
\* the size of its payload, whether or not it was forwarded.
C13_MediaAlwaysRecorded ==
  HandledTwilio("media") =>
    /\ LastRowIs("Audio Input")
    /\ conversationData[Len(conversationData)].sizeBytes =
         Len(lastEvent.msg.media.payload)

\* s is a prefix of t
IsPrefix(s, t) == Len(s) <= Len(t) /\ SubSeq(t, 1, Len(s)) = s

\* C14: the transcript is append-only: every step leaves the rows it found
\* as a prefix of the transcript, also after a transcript has been uploaded.
C14_AppendOnly ==
  [][IsPrefix(conversationData, conversationData')]_vars

\* C14 witness: a row has been appended after the transcript was serialized
\* and uploaded, and the uploaded rows are still the first rows
C14_Witness ==
  /\ Len(uploads) = 1
  /\ Len(conversationData) > Len(uploads[1].csvData) - 1
  /\ IsPrefix(uploads[1].csvData,
              generateConversationCSV(conversationData))

\* C15: translated output keeps the order of its source: the
\* user_audio_chunk frames sent to ElevenLabs are in the order of the Twilio
\* media frames they translate, and the media / clear frames sent to Twilio
\* are in the order of the ElevenLabs messages they translate.
C15_OrderPreserved ==
  /\ \A i, j \in 1..Len(aiSent) :
       (i < j /\ IsChunk(aiSent[i]) /\ IsChunk(aiSent[j])) =>
         aiSent[i].from < aiSent[j].from
  /\ \A i, j \in 1..Len(twilioSent) :
       i < j => twilioSent[i].from < twilioSent[j].from

\* C15 witness: two ElevenLabs messages have been translated, an audio
\* message and then an interruption, and Twilio was sent media, then clear
C15_Witness ==
  /\ Len(twilioSent) = 2
  /\ twilioSent[1].frame.event = "media"
  /\ twilioSent[1].from = 1
  /\ twilioSent[2].frame.event = "clear"
  /\ twilioSent[2].from = 2

\* the step handles an ElevenLabs message of a type the switch has no case
\* for
HandlesUnrecognizedAI ==
  /\ nAI' = nAI + 1
  /\ "type" \in DOMAIN lastEvent'.msg
  /\ lastEvent'.msg.type \notin RecognizedTypes

StartRows(data) ==
  { i \in 1..Len(data) : data[i].messageType = "Call Start" }

\* the streamSid of the "start" frame handled last, read from the
\* transcript; NULL when no "start" frame has been handled
LastStartSid(data) ==
  IF StartRows(data) = {} THEN NULL
  ELSE LET last == CHOOSE i \in StartRows(data) :
                     \A k \in StartRows(data) : k <= i
       IN  data[last].additionalInfo.streamSid

\* C18: every frame sent on the Twilio socket, media or clear, carries a
\* streamSid that is set and is the streamSid of the "start" frame handled
\* last; none is sent while no "start" frame has been handled.
C18_FramesCarryCurrentSid ==
  [][ twilioSent' # twilioSent =>
        /\ Len(twilioSent') = Len(twilioSent) + 1
        /\ IsPrefix(twilioSent, twilioSent')
        /\ TruthyStr(twilioSent'[Len(twilioSent')].frame.streamSid)
        /\ twilioSent'[Len(twilioSent')].frame.streamSid =
             LastStartSid(conversationData) ]_vars

\* C18 witness: two "start" frames with different streamSids were handled,
\* and the frame sent to Twilio after them carries the second one
C18_Witness ==
  /\ Cardinality(StartRows(conversationData)) = 2
  /\ \E i \in StartRows(conversationData) :
       conversationData[i].additionalInfo.streamSid
         # LastStartSid(conversationData)
  /\ Len(twilioSent) = 1
  /\ twilioSent[1].frame.streamSid = LastStartSid(conversationData)

\* the calls of elevenLabsWs.send that carry the initialization frame
IsInit(call) ==
  /\ "type" \in DOMAIN call.frame
  /\ call.frame.type = "conversation_initiation_client_data"

InitCalls == { i \in 1..Len(aiSent) : IsInit(aiSent[i]) }

\* C19: on an ElevenLabs socket that has opened exactly one
\* conversation_initiation_client_data frame has been sent, and it is the
\* first frame sent: no user_audio_chunk and no pong precedes it.
C19_InitFrameFirst ==
  /\ Cardinality(InitCalls) <= 1
  /\ (readyState \in {"OPEN", "CLOSING"} \/ HasRow("Initialization")) =>
       Cardinality(InitCalls) = 1
  /\ aiSent # << >> => IsInit(aiSent[1])

\* C19 witness: after the initialization frame the socket was sent the
\* user_audio_chunk of the second Twilio frame and then a pong
C19_Witness ==
  /\ Len(aiSent) = 3
  /\ IsInit(aiSent[1])
  /\ IsChunk(aiSent[2])
  /\ aiSent[2].from = 2
  /\ aiSent[3].frame.type = "pong"

\* C20: a "stop" frame handled while callSid is unset uploads nothing: the
\* call of uploadConversationToStorage is rejected for the missing parameter
\* and never stores an artifact, the Call End row is appended, the
\* ElevenLabs socket is closed when it was open, and the rest of the session
\* state stays as it was.
C20_StopBeforeStart ==
  [][ /\ (HandlesTwilio("stop") /\ callSid = NULL) =>
           /\ Len(uploads') = Len(uploads) + 1
           /\ IsPrefix(uploads, uploads')
           /\ uploads'[Len(uploads')].status = "rejected"
           /\ conversationData' = Append(conversationData,
                Row("System", "Call End", "Twilio stream disconnected", 0,
                    ""))
           /\ readyState' = IF ElevenLabsIsOpen THEN "CLOSING" ELSE readyState
           /\ closeCalls' = IF ElevenLabsIsOpen THEN closeCalls + 1
                            ELSE closeCalls
           /\ UNCHANGED << closureVars, elevenLabsWs, wsState, setupPc,
                           elevenLabsPrompt, aiSent, twilioSent >>
      /\ \A i \in 1..Len(uploads) :
           uploads[i].status = "rejected" =>
             (Len(uploads') >= i /\ uploads'[i].status = "rejected") ]_vars

\* C20 witness: a "stop" frame has just been handled with callSid unset
\* while the ElevenLabs socket was open: the upload is rejected, Call End is
\* the last row and the socket is closing
C20_Witness ==
  /\ HandledTwilio("stop")
  /\ callSid = NULL
  /\ Len(uploads) = 1
  /\ uploads[1].status = "rejected"
  /\ LastRowIs("Call End")
  /\ readyState = "CLOSING"
  /\ closeCalls = 1

\* C17: with two concurrent sessions, a handler run of one session leaves
\* the whole closure of the other session as it was: its identifiers, its
\* ElevenLabs socket, its transcript, and the frames sent on its two
\* sockets.  The only other step hands the event loop to the other session
\* and changes neither closure.
C17_SessionsIndependent ==
  [][ \/ peer' = peer
      \/ (peer' = Cur /\ Cur' = peer) ]_vars

\* C17 witness: one session has opened its ElevenLabs socket and handled
\* the "start" frame of stream S1; then the other session, which has no
\* socket yet, has handled the "start" frame of stream S2.  Each holds its
\* own identifiers and its own transcript
C17_Witness ==
  /\ peer # NoPeer
  /\ peer.readyState = "OPEN"
  /\ Len(peer.aiSent) = 1
  /\ peer.streamSid = "S1"
  /\ peer.callSid = "C1"
  /\ Len(peer.conversationData) = 2
  /\ HandledTwilio("start")
  /\ streamSid = "S2"
  /\ callSid = "C2"
  /\ elevenLabsWs = NULL
  /\ aiSent = << >>
  /\ Len(conversationData) = 1

====
